---- MODULE Spec2Model ----
(***************************************************************************)
(* Model of streamlit_app.py: the TreeNode hierarchy, its recursive        *)
(* traversals (search_nodes, find_node_by_id, get_all_nodes,               *)
(* get_visible_nodes, expand_all, collapse_all) and the script main(),     *)
(* which Streamlit re-runs from top to bottom on every widget event.       *)
(*                                                                         *)
(* A TreeNode object is a node index; the heap of TreeNode objects is a    *)
(* record of functions from node index to the field's value.  Text is a    *)
(* sequence of one-character strings, so lower() and the substring test    *)
(* of Python's `in` are computed, not assumed.                             *)
(***************************************************************************)
EXTENDS Integers, Sequences, FiniteSets, TLC

VARIABLES
    tree,            \* st.session_state.tree_data: the TreeNode objects
    selected_node,   \* st.session_state["selected_node"]
    search_query,    \* value of the "Search nodes:" text input
    search_results,  \* main's local search_results
    selected_id,     \* main's local selected_id
    detail_node,     \* main's local selected_node (find_node_by_id's result)
    all_nodes,       \* main's local all_nodes
    visible_nodes,   \* main's local visible_nodes
    last             \* history: the last operation and the state before it

vars == <<tree, selected_node, search_query, search_results, selected_id,
          detail_node, all_nodes, visible_nodes, last>>

\* Largest number of nodes of the generated trees the functions are applied to.
MaxNodes == 4

\* Python's None, as find_node_by_id returns it (node indices start at 1).
None == 0

\* The root TreeNode of every tree is node 1.
Root == 1

-----------------------------------------------------------------------------
(* Text *)

UpperChars == <<"A","B","C","D","E","F","G","H","I","J","K","L","M",
                "N","O","P","Q","R","S","T","U","V","W","X","Y","Z">>
LowerChars == <<"a","b","c","d","e","f","g","h","i","j","k","l","m",
                "n","o","p","q","r","s","t","u","v","w","x","y","z">>

\* str.lower() on one character.
lower_char(c) ==
    IF \E i \in 1..Len(UpperChars) : UpperChars[i] = c
    THEN LowerChars[CHOOSE i \in 1..Len(UpperChars) : UpperChars[i] = c]
    ELSE c

\* str.lower()
lower(s) == [i \in 1..Len(s) |-> lower_char(s[i])]

\* Variant of str_in in which the empty string occurs nowhere.
str_in_nonempty(a, b) ==
    /\ a # <<>>
    /\ \E off \in 0..(Len(b) - Len(a)) : SubSeq(b, off + 1, off + Len(a)) = a

\* Python's `a in b` on strings: a occurs in b at some offset; the empty
\* string occurs at offset 0 of every string.
str_in(a, b) ==
    \E off \in 0..(Len(b) - Len(a)) : SubSeq(b, off + 1, off + Len(a)) = a

-----------------------------------------------------------------------------
(* TreeNode and the sample data *)

\* uuid.uuid4() of the k-th TreeNode constructed: distinct opaque strings.
uuid4 == <<"uuid-1", "uuid-2", "uuid-3", "uuid-4", "uuid-5", "uuid-6",
           "uuid-7", "uuid-8", "uuid-9", "uuid-10">>

\* An id no TreeNode has.
NonexistentId == "nonexistent-id"

\* TreeNode.__init__ for the nodes kids maps to their child lists:
\* a fresh id each, expanded = False.
TreeNode(kids, names, descriptions, categories) ==
    [children    |-> kids,
     id          |-> [n \in DOMAIN kids |-> uuid4[n]],
     name        |-> names,
     description |-> descriptions,
     category    |-> categories,
     expanded    |-> [n \in DOMAIN kids |-> FALSE]]

\* create_sample_data(): nodes numbered in construction order
\* 1 root, 2 node1, 3 node2, 4 node1_1, 5 node1_2, 6 node2_1,
\* 7 node1_1_1, 8 node1_1_2.
create_sample_data ==
    TreeNode(
      << <<2, 3>>, <<4, 5>>, <<6>>, <<7, 8>>, <<>>, <<>>, <<>>, <<>> >>,
      << <<"R","o","o","t">>,
         <<"A","n","a","l","y","t","i","c","s">>,
         <<"R","e","p","o","r","t","i","n","g">>,
         <<"S","a","l","e","s"," ","A","n","a","l","y","t","i","c","s">>,
         <<"M","a","r","k","e","t","i","n","g"," ","A","n","a","l","y","t","i","c","s">>,
         <<"M","o","n","t","h","l","y"," ","R","e","p","o","r","t","s">>,
         <<"R","e","v","e","n","u","e"," ","T","r","a","c","k","i","n","g">>,
         <<"C","u","s","t","o","m","e","r"," ","M","e","t","r","i","c","s">> >>,
      << <<"M","a","i","n"," ","r","o","o","t"," ","n","o","d","e">>,
         <<"D","a","t","a"," ","a","n","a","l","y","s","i","s"," ","m","o","d","u","l","e">>,
         <<"R","e","p","o","r","t"," ","g","e","n","e","r","a","t","i","o","n">>,
         <<"S","a","l","e","s"," ","d","a","t","a"," ","p","r","o","c","e","s","s","i","n","g">>,
         <<"M","a","r","k","e","t","i","n","g"," ","m","e","t","r","i","c","s">>,
         <<"M","o","n","t","h","l","y"," ","s","u","m","m","a","r","i","e","s">>,
         <<"T","r","a","c","k"," ","s","a","l","e","s"," ","r","e","v","e","n","u","e">>,
         <<"C","u","s","t","o","m","e","r"," ","a","n","a","l","y","s","i","s">> >>,
      << <<"S","y","s","t","e","m">>,
         <<"M","o","d","u","l","e">>,
         <<"M","o","d","u","l","e">>,
         <<"C","o","m","p","o","n","e","n","t">>,
         <<"C","o","m","p","o","n","e","n","t">>,
         <<"C","o","m","p","o","n","e","n","t">>,
         <<"F","e","a","t","u","r","e">>,
         <<"F","e","a","t","u","r","e">> >>)

-----------------------------------------------------------------------------
(* Traversals *)

RECURSIVE search_nodes(_, _, _), search_children(_, _, _)

\* Variant of search_nodes that does not test the category.
search_nodes_without_category(t, node, query) ==
    LET query_lower == lower(query)
        results == IF \/ str_in(query_lower, lower(t.name[node]))
                      \/ str_in(query_lower, lower(t.description[node]))
                   THEN <<node>>
                   ELSE <<>>
    IN  results \o search_children(t, t.children[node], query)

\* search_nodes(node, query) on the objects of t.
search_nodes(t, node, query) ==
    LET query_lower == lower(query)
        results == IF \/ str_in(query_lower, lower(t.name[node]))
                      \/ str_in(query_lower, lower(t.description[node]))
                      \/ str_in(query_lower, lower(t.category[node]))
                   THEN <<node>>
                   ELSE <<>>
    IN  results \o search_children(t, t.children[node], query)

\* The loop `for child in node.children: results.extend(search_nodes(..))`.
search_children(t, kids, query) ==
    IF kids = <<>> THEN <<>>
    ELSE search_nodes(t, Head(kids), query) \o search_children(t, Tail(kids), query)

RECURSIVE find_node_by_id(_, _, _), find_in_children(_, _, _)

\* find_node_by_id(node, node_id) on the objects of t.
find_node_by_id(t, node, node_id) ==
    IF t.id[node] = node_id THEN node
    ELSE find_in_children(t, t.children[node], node_id)

\* Variant of the loop that returns whatever the first child's search gives.
find_in_first_child_only(t, kids, node_id) ==
    IF kids = <<>> THEN None
    ELSE find_node_by_id(t, Head(kids), node_id)

\* The loop over node.children, returning the first found that is truthy.
find_in_children(t, kids, node_id) ==
    IF kids = <<>> THEN None
    ELSE LET found == find_node_by_id(t, Head(kids), node_id)
         IN  IF found # None THEN found
             ELSE find_in_children(t, Tail(kids), node_id)

RECURSIVE get_all_nodes(_, _), get_all_children(_, _)

\* get_all_nodes(node)
get_all_nodes(t, node) == <<node>> \o get_all_children(t, t.children[node])

get_all_children(t, kids) ==
    IF kids = <<>> THEN <<>>
    ELSE get_all_nodes(t, Head(kids)) \o get_all_children(t, Tail(kids))

RECURSIVE get_visible_nodes(_, _), get_visible_children(_, _)

\* Variant of get_visible_nodes that descends whatever the expanded flag is.
get_visible_nodes_ignoring_flag(t, node) ==
    <<node>> \o get_visible_children(t, t.children[node])

\* main's nested get_visible_nodes(node)
get_visible_nodes(t, node) ==
    <<node>> \o (IF t.expanded[node]
                 THEN get_visible_children(t, t.children[node])
                 ELSE <<>>)

\* Variant of the loop of get_visible_nodes that stops after the first child.
get_visible_first_child_only(t, kids) ==
    IF kids = <<>> THEN <<>>
    ELSE get_visible_nodes(t, Head(kids))

get_visible_children(t, kids) ==
    IF kids = <<>> THEN <<>>
    ELSE get_visible_nodes(t, Head(kids)) \o get_visible_children(t, Tail(kids))

RECURSIVE expand_all(_, _), expand_all_children(_, _)

\* Variant of expand_all that does not recurse into the children.
expand_all_root_only(t, node) == [t EXCEPT !.expanded[node] = TRUE]

\* main's nested expand_all(node): returns the objects after the call.
expand_all(t, node) ==
    expand_all_children([t EXCEPT !.expanded[node] = TRUE], t.children[node])

\* Variant of the loop of expand_all that stops after the first child.
expand_all_first_child_only(t, kids) ==
    IF kids = <<>> THEN t
    ELSE expand_all(t, Head(kids))

expand_all_children(t, kids) ==
    IF kids = <<>> THEN t
    ELSE expand_all_children(expand_all(t, Head(kids)), Tail(kids))

RECURSIVE collapse_all(_, _), collapse_all_children(_, _)

\* Variant of collapse_all that does not recurse into the children.
collapse_all_root_only(t, node) == [t EXCEPT !.expanded[node] = FALSE]

\* main's nested collapse_all(node): returns the objects after the call.
collapse_all(t, node) ==
    collapse_all_children([t EXCEPT !.expanded[node] = FALSE], t.children[node])

collapse_all_children(t, kids) ==
    IF kids = <<>> THEN t
    ELSE collapse_all_children(collapse_all(t, Head(kids)), Tail(kids))

-----------------------------------------------------------------------------
(* The explorer pane *)

\* No button of the explorer was clicked in this run.
NoClick == <<"none", 0>>

RECURSIVE render_tree_node_explorer(_, _, _), render_explorer_children(_, _, _)

\* Variant of render_tree_node_explorer that stores the widget key, not the
\* node id, as the selection.
render_selecting_widget_key(s, node, click) ==
    LET has_children == s.tree.children[node] # <<>>
        toggled == IF click = <<"expand", node>>
                   THEN [s EXCEPT !.tree.expanded[node] = ~@]
                   ELSE s
        s1 == IF has_children
              THEN IF toggled.tree.expanded[node]
                   THEN render_explorer_children(toggled, s.tree.children[node], click)
                   ELSE toggled
              ELSE IF click = <<"leaf", node>>
                   THEN [s EXCEPT !.selected_node = "explorer_key"]
                   ELSE s
    IN  IF has_children /\ click = <<"select", node>>
        THEN [s1 EXCEPT !.selected_node = "select_explorer_key"]
        ELSE s1

\* Variant of render_tree_node_explorer in which the folder button also
\* selects the node.
render_toggle_selects(s, node, click) ==
    LET has_children == s.tree.children[node] # <<>>
        toggled == IF click = <<"expand", node>>
                   THEN [s EXCEPT !.tree.expanded[node] = ~@,
                                  !.selected_node = s.tree.id[node]]
                   ELSE s
        s1 == IF has_children
              THEN IF toggled.tree.expanded[node]
                   THEN render_explorer_children(toggled, s.tree.children[node], click)
                   ELSE toggled
              ELSE IF click = <<"leaf", node>>
                   THEN [s EXCEPT !.selected_node = s.tree.id[node]]
                   ELSE s
    IN  IF has_children /\ click = <<"select", node>>
        THEN [s1 EXCEPT !.selected_node = s.tree.id[node]]
        ELSE s1

\* render_tree_node_explorer(node) in a run where the button `click` returns
\* True (at most one button does).  s = [tree, selected_node]; the value is
\* s after the call.  A button key is <<kind, node>>: node.id is unique, so
\* the level in the key adds nothing.
render_tree_node_explorer(s, node, click) ==
    LET has_children == s.tree.children[node] # <<>>
        toggled == IF click = <<"expand", node>>
                   THEN [s EXCEPT !.tree.expanded[node] = ~@]
                   ELSE s
        s1 == IF has_children
              THEN IF toggled.tree.expanded[node]
                   THEN render_explorer_children(toggled, s.tree.children[node], click)
                   ELSE toggled
              ELSE IF click = <<"leaf", node>>
                   THEN [s EXCEPT !.selected_node = s.tree.id[node]]
                   ELSE s
    IN  IF has_children /\ click = <<"select", node>>
        THEN [s1 EXCEPT !.selected_node = s.tree.id[node]]
        ELSE s1

render_explorer_children(s, kids, click) ==
    IF kids = <<>> THEN s
    ELSE render_explorer_children(
             render_tree_node_explorer(s, Head(kids), click), Tail(kids), click)

RECURSIVE explorer_buttons(_, _), explorer_buttons_children(_, _)

\* The st.button widgets render_tree_node_explorer(node) draws: what the
\* user can click in the next run.
explorer_buttons(t, node) ==
    IF t.children[node] # <<>>
    THEN {<<"expand", node>>, <<"select", node>>}
         \cup (IF t.expanded[node]
               THEN explorer_buttons_children(t, t.children[node])
               ELSE {})
    ELSE {<<"leaf", node>>}

explorer_buttons_children(t, kids) ==
    IF kids = <<>> THEN {}
    ELSE explorer_buttons(t, Head(kids)) \cup explorer_buttons_children(t, Tail(kids))

-----------------------------------------------------------------------------
(* The script *)

\* The part of main() from the search box to the chart, in a run where the
\* explorer button `click` returns True: the value holds session_state and
\* main's locals at the end of the run.
main_body(t, sel, query, click) ==
    LET results == IF query # <<>> THEN search_nodes(t, Root, query) ELSE <<>>
        s       == render_tree_node_explorer(
                       [tree |-> t, selected_node |-> sel], Root, click)
    IN  [tree           |-> s.tree,
         selected_node  |-> s.selected_node,
         search_query   |-> query,
         search_results |-> results,
         selected_id    |-> s.selected_node,
         detail_node    |-> find_node_by_id(s.tree, Root, s.selected_node),
         all_nodes      |-> get_all_nodes(s.tree, Root),
         visible_nodes  |-> get_visible_nodes(s.tree, Root)]

\* One user event, handled by main() up to the end of the run that draws the
\* page.  "Expand All" and "Collapse All" change the flags and call
\* st.rerun(), which abandons the run and starts one without an event.
main(t, sel, query, event) ==
    IF event = <<"expand_all", 0>>
    THEN main_body(expand_all(t, Root), sel, query, NoClick)
    ELSE IF event = <<"collapse_all", 0>>
    THEN main_body(collapse_all(t, Root), sel, query, NoClick)
    ELSE main_body(t, sel, query, event)

\* The first run of a session: tree_data and selected_node are not in
\* session_state yet, and no widget has a value.
first_run ==
    LET t == create_sample_data
    IN  main(t, t.id[Root], <<>>, NoClick)

\* The history entry of an operation: its name, the node or 0, and the
\* flags and selection it started from.
Entry(op, node) ==
    [op |-> op, node |-> node, expanded |-> tree.expanded, selected |-> selected_node]

\* The state takes the values a run of main() ended with.
Becomes(r) ==
    /\ tree' = r.tree
    /\ selected_node' = r.selected_node
    /\ search_query' = r.search_query
    /\ search_results' = r.search_results
    /\ selected_id' = r.selected_id
    /\ detail_node' = r.detail_node
    /\ all_nodes' = r.all_nodes
    /\ visible_nodes' = r.visible_nodes

\* Texts the user types into the search box.
SessionQueries ==
    { <<>>,
      <<"a","n","a","l","y","t","i","c","s">>,
      <<"M","o","d","u","l","e">> }

Init ==
    /\ tree = first_run.tree
    /\ selected_node = first_run.selected_node
    /\ search_query = first_run.search_query
    /\ search_results = first_run.search_results
    /\ selected_id = first_run.selected_id
    /\ detail_node = first_run.detail_node
    /\ all_nodes = first_run.all_nodes
    /\ visible_nodes = first_run.visible_nodes
    /\ last = [op |-> "first_run", node |-> 0,
               expanded |-> first_run.tree.expanded,
               selected |-> first_run.selected_node]

\* The user clicks the folder button of a node that is on the page.
ToggleExpand(n) ==
    /\ <<"expand", n>> \in explorer_buttons(tree, Root)
    /\ Becomes(main(tree, selected_node, search_query, <<"expand", n>>))
    /\ last' = Entry("toggle", n)

\* The user clicks the button of a leaf that is on the page.
SelectLeaf(n) ==
    /\ <<"leaf", n>> \in explorer_buttons(tree, Root)
    /\ Becomes(main(tree, selected_node, search_query, <<"leaf", n>>))
    /\ last' = Entry("select", n)

\* The user clicks the "Select" button of a node with children.
SelectParent(n) ==
    /\ <<"select", n>> \in explorer_buttons(tree, Root)
    /\ Becomes(main(tree, selected_node, search_query, <<"select", n>>))
    /\ last' = Entry("select", n)

\* The user clicks "Expand All".
ExpandAll ==
    /\ Becomes(main(tree, selected_node, search_query, <<"expand_all", 0>>))
    /\ last' = Entry("expand_all", 0)

\* The user clicks "Collapse All".
CollapseAll ==
    /\ Becomes(main(tree, selected_node, search_query, <<"collapse_all", 0>>))
    /\ last' = Entry("collapse_all", 0)

\* The user changes the text of the search box.
Search(q) ==
    /\ q # search_query
    /\ Becomes(main(tree, selected_node, q, NoClick))
    /\ last' = Entry("search", 0)

Next ==
    \/ \E n \in DOMAIN tree.children : ToggleExpand(n)
    \/ \E n \in DOMAIN tree.children : SelectLeaf(n)
    \/ \E n \in DOMAIN tree.children : SelectParent(n)
    \/ ExpandAll
    \/ CollapseAll
    \/ \E q \in SessionQueries : Search(q)

Spec == Init /\ [][Next]_vars

-----------------------------------------------------------------------------
(* The functions applied to every tree of up to MaxNodes nodes *)

RECURSIVE SortedSeq(_)
\* A list of children in the order they were appended: ascending node index.
SortedSeq(S) ==
    IF S = {} THEN <<>>
    ELSE LET m == CHOOSE x \in S : \A y \in S : x <= y
         IN  <<m>> \o SortedSeq(S \ {m})

\* The ways of giving each of the nodes 2..n a parent constructed before it.
ParentMaps(n) == { par \in [2..n -> 1..n] : \A i \in 2..n : par[i] < i }

\* The child lists of the n nodes under the parent map par.
ChildLists(n, par) ==
    [p \in 1..n |-> SortedSeq({ i \in 2..n : par[i] = p })]

\* The name, description and category a generated node is constructed with.
NodeTexts ==
    << [name |-> <<"A","b">>, description |-> <<"C","d">>, category |-> <<"E">>],
       [name |-> <<"c","B">>, description |-> <<"x">>,     category |-> <<"a","D">>] >>

\* The trees of n TreeNode objects: every shape, every choice of texts, and
\* every assignment of the expanded flags.
TreesOfSize(n) ==
    { [TreeNode(ChildLists(n, par),
                [i \in 1..n |-> NodeTexts[txt[i]].name],
                [i \in 1..n |-> NodeTexts[txt[i]].description],
                [i \in 1..n |-> NodeTexts[txt[i]].category])
         EXCEPT !.expanded = flags] :
        par \in ParentMaps(n),
        txt \in [1..n -> 1..Len(NodeTexts)],
        flags \in [1..n -> BOOLEAN] }

\* The sample tree under every assignment of the expanded flags.
SampleTrees ==
    { [create_sample_data EXCEPT !.expanded = flags] :
        flags \in [DOMAIN create_sample_data.children -> BOOLEAN] }

InputTrees == SampleTrees \cup UNION { TreesOfSize(n) : n \in 1..MaxNodes }

\* The queries search_nodes is called with.
InputQueries ==
    { <<>>, <<"A","B">>, <<"d">>, <<"x">>, <<"e">>,
      <<"a","n","a","l","y","t","i","c","s">>,
      <<"R","E","V","e","n","u","e">> }

\* The ids find_node_by_id is called with: those of the tree and one of none.
InputIds == { tree.id[n] : n \in DOMAIN tree.children } \cup { NonexistentId }

FnInit ==
    /\ tree \in InputTrees
    /\ selected_node = ""
    /\ search_query = <<>>
    /\ search_results = <<>>
    /\ selected_id = ""
    /\ detail_node = None
    /\ all_nodes = <<>>
    /\ visible_nodes = <<>>
    /\ last = [op |-> "input", node |-> 0, expanded |-> tree.expanded, selected |-> ""]

Call_search_nodes(q) ==
    /\ last.op = "input"
    /\ search_query' = q
    /\ search_results' = search_nodes(tree, Root, q)
    /\ last' = Entry("search_nodes", 0)
    /\ UNCHANGED <<tree, selected_node, selected_id, detail_node, all_nodes, visible_nodes>>

Call_find_node_by_id(i) ==
    /\ last.op = "input"
    /\ selected_id' = i
    /\ detail_node' = find_node_by_id(tree, Root, i)
    /\ last' = Entry("find_node_by_id", 0)
    /\ UNCHANGED <<tree, selected_node, search_query, search_results, all_nodes, visible_nodes>>

Call_get_all_nodes ==
    /\ last.op = "input"
    /\ all_nodes' = get_all_nodes(tree, Root)
    /\ last' = Entry("get_all_nodes", 0)
    /\ UNCHANGED <<tree, selected_node, search_query, search_results, selected_id, detail_node, visible_nodes>>

Call_get_visible_nodes ==
    /\ last.op = "input"
    /\ visible_nodes' = get_visible_nodes(tree, Root)
    /\ last' = Entry("get_visible_nodes", 0)
    /\ UNCHANGED <<tree, selected_node, search_query, search_results, selected_id, detail_node, all_nodes>>

FnNext ==
    \/ \E q \in InputQueries : Call_search_nodes(q)
    \/ \E i \in InputIds : Call_find_node_by_id(i)
    \/ Call_get_all_nodes
    \/ Call_get_visible_nodes

FnSpec == FnInit /\ [][FnNext]_vars

-----------------------------------------------------------------------------
(* The tree as a relation: what the properties below are stated with *)

Nodes(t) == DOMAIN t.children

\* The ids of the nodes of t.
NodeIds(t) == { t.id[n] : n \in Nodes(t) }

\* The nodes with at least one child, and those with none.
InternalNodes(t) == { n \in Nodes(t) : t.children[n] # <<>> }
LeafNodes(t) == Nodes(t) \ InternalNodes(t)

\* The nodes whose expanded flag is set.
ExpandedNodes(t) == { n \in Nodes(t) : t.expanded[n] }

\* The position of child c in the child list of p.
ChildIndex(t, p, c) == CHOOSE i \in 1..Len(t.children[p]) : t.children[p][i] = c

\* The node whose child list holds n (n is not the root).
ParentOf(t, n) ==
    CHOOSE p \in Nodes(t) : \E i \in 1..Len(t.children[p]) : t.children[p][i] = n

RECURSIVE Ancestors(_, _)
\* The proper ancestors of n.
Ancestors(t, n) ==
    IF n = Root THEN {}
    ELSE {ParentOf(t, n)} \cup Ancestors(t, ParentOf(t, n))

\* The child of c on the path from c down to n (c is a proper ancestor of n).
ChildToward(t, c, n) ==
    CHOOSE x \in Ancestors(t, n) \cup {n} : x # Root /\ ParentOf(t, x) = c

\* a comes before b in the pre-order walk: a is an ancestor of b, or below
\* their deepest common ancestor a's branch is listed before b's.
PreOrderBefore(t, a, b) ==
    /\ a # b
    /\ \/ a \in Ancestors(t, b)
       \/ /\ b \notin Ancestors(t, a)
          /\ LET common == Ancestors(t, a) \cap Ancestors(t, b)
                 c == CHOOSE x \in common :
                          \A y \in common : y = x \/ y \in Ancestors(t, x)
             IN  ChildIndex(t, c, ChildToward(t, c, a))
                     < ChildIndex(t, c, ChildToward(t, c, b))

\* seq lists exactly the nodes of S, each once, in pre-order.
IsPreOrderListOf(t, seq, S) ==
    /\ { seq[i] : i \in 1..Len(seq) } = S
    /\ Len(seq) = Cardinality(S)
    /\ \A i, j \in 1..Len(seq) : i < j => PreOrderBefore(t, seq[i], seq[j])

\* Lowercase q occurs in lowercase text at some position.
OccursIn(q, text) ==
    \E start \in 1..Len(text) :
        /\ start + Len(q) - 1 <= Len(text)
        /\ \A k \in 1..Len(q) : lower_char(text[start + k - 1]) = lower_char(q[k])

\* Node n matches q on its name, description or category.
Matches(t, n, q) ==
    \/ OccursIn(q, t.name[n])
    \/ OccursIn(q, t.description[n])
    \/ OccursIn(q, t.category[n])

\* The names of the nodes of a list.
NamesOf(t, seq) == [i \in 1..Len(seq) |-> t.name[seq[i]]]

-----------------------------------------------------------------------------
(* Properties *)

\* C1: get_visible_nodes(root) lists, in pre-order and each once, exactly the
\* nodes all of whose proper ancestors are expanded; the root comes first,
\* and with no node expanded the result is [root].
C1_VisibleIsExpandedPath ==
    last.op = "get_visible_nodes" =>
        /\ IsPreOrderListOf(tree, visible_nodes,
               { n \in Nodes(tree) : \A a \in Ancestors(tree, n) : tree.expanded[a] })
        /\ visible_nodes[1] = Root
        /\ (ExpandedNodes(tree) = {} => visible_nodes = <<Root>>)

\* get_visible_nodes ran on a tree where an expanded node with an expanded
\* descendant sits under a collapsed ancestor, and the root is expanded.
C1_Witness ==
    /\ last.op = "get_visible_nodes"
    /\ Len(visible_nodes) > 1
    /\ \E n \in Nodes(tree) :
          /\ tree.expanded[n]
          /\ \E a \in Ancestors(tree, n) : ~tree.expanded[a]
          /\ \E d \in Nodes(tree) : n \in Ancestors(tree, d) /\ tree.expanded[d]

\* C2 as stated: after Expand All the expanded nodes are exactly the nodes
\* with at least one child, and no leaf is ever expanded.
C2_OnlyInternalNodesExpanded ==
    /\ last.op = "expand_all" => ExpandedNodes(tree) = InternalNodes(tree)
    /\ \A n \in LeafNodes(tree) : ~tree.expanded[n]

\* C2, amended: after Expand All every node of the tree has its expanded
\* flag set, the leaves included, so the expanded nodes that have children
\* are exactly the internal nodes.
C2_ExpandAllSetsEveryFlag ==
    last.op = "expand_all" =>
        /\ ExpandedNodes(tree) = Nodes(tree)
        /\ ExpandedNodes(tree) \cap InternalNodes(tree) = InternalNodes(tree)
        /\ LeafNodes(tree) \subseteq ExpandedNodes(tree)

\* Expand All was clicked when some internal node below the root and the
\* leaves were collapsed.
C2_Witness ==
    /\ last.op = "expand_all"
    /\ \E n \in InternalNodes(tree) \ {Root} : ~last.expanded[n]
    /\ \E n \in LeafNodes(tree) : ~last.expanded[n]

\* C3 as stated: on the sample tree with exactly Root and Analytics
\* expanded, the visible nodes are Root, Analytics, Sales Analytics,
\* Marketing Analytics.
C3_SampleVisibleWithoutReporting ==
    ExpandedNodes(tree) = {1, 2} =>
        NamesOf(tree, visible_nodes) =
             << <<"R","o","o","t">>,
                <<"A","n","a","l","y","t","i","c","s">>,
                <<"S","a","l","e","s"," ","A","n","a","l","y","t","i","c","s">>,
                <<"M","a","r","k","e","t","i","n","g"," ","A","n","a","l","y","t","i","c","s">> >>

\* C3, amended: on the sample tree with exactly Root and Analytics expanded,
\* the visible nodes are Root, Analytics, Sales Analytics, Marketing
\* Analytics and Reporting: Reporting is a child of the expanded Root.
C3_SampleVisible ==
    ExpandedNodes(tree) = {1, 2} =>
        /\ visible_nodes = <<1, 2, 4, 5, 3>>
        /\ NamesOf(tree, visible_nodes) =
             << <<"R","o","o","t">>,
                <<"A","n","a","l","y","t","i","c","s">>,
                <<"S","a","l","e","s"," ","A","n","a","l","y","t","i","c","s">>,
                <<"M","a","r","k","e","t","i","n","g"," ","A","n","a","l","y","t","i","c","s">>,
                <<"R","e","p","o","r","t","i","n","g">> >>

\* The session reached the state with exactly Root and Analytics expanded.
C3_Witness ==
    /\ ExpandedNodes(tree) = {1, 2}
    /\ last.op = "toggle"
    /\ Len(visible_nodes) = 5

\* C4: selected_node is always the id of a node of the tree, and the detail
\* pane resolves it to that node.
C4_SelectedExists ==
    /\ selected_node \in NodeIds(tree)
    /\ selected_id = selected_node
    /\ detail_node # None
    /\ detail_node \in Nodes(tree)
    /\ tree.id[detail_node] = selected_node

\* A leaf two levels below Analytics was selected and later hidden by
\* Collapse All.
C4_Witness ==
    /\ selected_node = tree.id[7]
    /\ detail_node = 7
    /\ last.op = "collapse_all"

\* C5: for a non-empty query, search_nodes(root, q) lists, in pre-order and
\* each once, exactly the nodes whose lowercased name, description or
\* category contains lowercased q; on the sample tree "analytics" gives
\* Analytics, Sales Analytics, Marketing Analytics.
C5_SearchExact ==
    (last.op = "search_nodes" /\ search_query # <<>>) =>
        /\ IsPreOrderListOf(tree, search_results,
               { n \in Nodes(tree) : Matches(tree, n, search_query) })
        /\ (/\ tree.name = create_sample_data.name
            /\ search_query = <<"a","n","a","l","y","t","i","c","s">>)
           => /\ search_results = <<2, 4, 5>>
              /\ NamesOf(tree, search_results) =
                   << <<"A","n","a","l","y","t","i","c","s">>,
                      <<"S","a","l","e","s"," ","A","n","a","l","y","t","i","c","s">>,
                      <<"M","a","r","k","e","t","i","n","g"," ","A","n","a","l","y","t","i","c","s">> >>

\* search_nodes ran with a query that nodes match on their upper-case
\* category only: the root does not match, two or more nodes do, one of them
\* two or more levels down.
C5_Witness ==
    /\ last.op = "search_nodes"
    /\ search_query = <<"e">>
    /\ Len(search_results) >= 2
    /\ Root \notin { search_results[i] : i \in 1..Len(search_results) }
    /\ \A i \in 1..Len(search_results) :
          tree.category[search_results[i]] = <<"E">>
    /\ \E i \in 1..Len(search_results) :
          Cardinality(Ancestors(tree, search_results[i])) >= 2

\* C6 as stated: search_nodes(root, "") returns the empty list.
C6_EmptyQueryMatchesNothing ==
    (last.op = "search_nodes" /\ search_query = <<>>) => search_results = <<>>

\* C6, amended: search_nodes(root, "") returns every node of the tree, each
\* once, in pre-order.
C6_EmptyQueryMatchesAll ==
    (last.op = "search_nodes" /\ search_query = <<>>) =>
        IsPreOrderListOf(tree, search_results, Nodes(tree))

\* search_nodes ran with the empty query on a tree of at least three nodes.
C6_Witness ==
    /\ last.op = "search_nodes"
    /\ search_query = <<>>
    /\ Cardinality(Nodes(tree)) >= 3

\* C7: after Expand All, get_visible_nodes(root) lists every node of the
\* tree once, in pre-order: it equals get_all_nodes(root).
C7_ExpandAllShowsAll ==
    last.op = "expand_all" =>
        /\ visible_nodes = all_nodes
        /\ IsPreOrderListOf(tree, visible_nodes, Nodes(tree))

\* Expand All was clicked when only the root was visible.
C7_Witness ==
    /\ last.op = "expand_all"
    /\ ExpandedNodes([tree EXCEPT !.expanded = last.expanded]) = {}
    /\ Len(visible_nodes) = 8

\* C8: find_node_by_id(root, i) returns the node whose id is i when the tree
\* has one and None otherwise, and never a node with another id.
C8_FindById ==
    last.op = "find_node_by_id" =>
        /\ detail_node # None => (detail_node \in Nodes(tree) /\ tree.id[detail_node] = selected_id)
        /\ (\E n \in Nodes(tree) : tree.id[n] = selected_id) => detail_node # None
        /\ selected_id = NonexistentId => detail_node = None

\* find_node_by_id found a node that is not in the first branch of the root.
C8_Witness ==
    /\ last.op = "find_node_by_id"
    /\ detail_node # None
    /\ detail_node # Root
    /\ Len(tree.children[Root]) >= 2
    /\ tree.children[Root][1] \notin Ancestors(tree, detail_node) \cup {detail_node}

\* A toggle changes the flag of the toggled node and nothing else.
ToggleChangesOneFlag ==
    last.op = "toggle" =>
        /\ tree.expanded = [last.expanded EXCEPT ![last.node] = ~@]
        /\ selected_node = last.selected

\* The second of two toggles of the same node in a row restores the flags
\* and the selection the first one started from.
SecondToggleRestores ==
    (last.op = "toggle" /\ last'.op = "toggle" /\ last'.node = last.node) =>
        /\ tree'.expanded = last.expanded
        /\ selected_node' = last.selected

\* C9: a toggle changes only the toggled node's flag, and toggling the same
\* node twice in succession restores the flags and the selected id.
C9_ToggleTwice == []ToggleChangesOneFlag /\ [][SecondToggleRestores]_vars

\* A node was collapsed again by the second of two toggles of it, with
\* another node selected and another node expanded.
C9_Witness ==
    /\ last.op = "toggle"
    /\ last.expanded[last.node]
    /\ ~tree.expanded[last.node]
    /\ selected_node # tree.id[Root]
    /\ selected_node # tree.id[last.node]
    /\ ExpandedNodes(tree) # {}

\* Collapse All leaves no flag set, only the root visible and the selection
\* as it was.
CollapseAllClears ==
    last.op = "collapse_all" =>
        /\ ExpandedNodes(tree) = {}
        /\ visible_nodes = <<Root>>
        /\ selected_node = last.selected

\* A Collapse All right after a Collapse All changes nothing.
SecondCollapseAllSame ==
    (last.op = "collapse_all" /\ last'.op = "collapse_all") =>
        UNCHANGED <<tree, selected_node, search_query, search_results,
                    selected_id, detail_node, all_nodes, visible_nodes>>

\* C10: Collapse All leaves no node expanded, so that only the root is
\* visible, keeps the selected id, and applied twice equals applied once.
C10_CollapseAll == []CollapseAllClears /\ [][SecondCollapseAllSame]_vars

\* Collapse All was clicked with nodes expanded at every level and a node
\* other than the root selected.
C10_Witness ==
    /\ last.op = "collapse_all"
    /\ {1, 2, 4} \subseteq ExpandedNodes([tree EXCEPT !.expanded = last.expanded])
    /\ selected_node # tree.id[Root]

====
